---- MODULE Spec2Model ----
(***************************************************************************)
(* A model of numpy/core/src/multiarray/array_method.c: ArrayMethod        *)
(* construction, the default descriptor resolver, the default loop         *)
(* selector, the two bound-method entry points and the masked strided-loop *)
(* adapter.                                                                *)
(***************************************************************************)
EXTENDS Integers, Sequences, FiniteSets, TLC

VARIABLES
    \* ---- generic_masked_strided_loop ----
    mask,        \* the mask operand: a sequence of booleans (non-zero bytes)
    nargs,       \* auxdata->nargs
    strides,     \* strides[1..nargs+1]; strides[nargs+1] is the mask stride
    N,           \* remaining element count
    maskptr,     \* the mask pointer, as a byte offset from data[nargs]
    dataptrs,    \* auxdata->dataptrs, the working data pointers
    calls,       \* the invocations of the unmasked strided loop, in order
    mpc,         \* position in generic_masked_strided_loop
    mret,        \* its return value once mpc = "done"
    \* ---- PyArrayMethod_FromSpec_int and the bound method's entry points ----
    spec,        \* the PyArrayMethod_Spec passed in
    private,     \* the private flag passed in
    bound,       \* the PyBoundArrayMethodObject returned (res), or NULL
    ctor,        \* how construction ended: "start" before it, then its outcome
    last         \* the last entry-point call on bound and its outcome

maskedVars == <<mask, nargs, strides, N, maskptr, dataptrs, calls, mpc, mret>>

methVars == <<spec, private, bound, ctor, last>>

vars == <<mask, nargs, strides, N, maskptr, dataptrs, calls, mpc, mret,
          spec, private, bound, ctor, last>>

----
\* Bounds of the model.
MaxLen == 5
MaxMaskedArgs == 2
MaxSlots == 3

\* The byte strides the data operands and the mask operand are tried with.
DataStrides == {-4, 0, 8}
MaskStrides == {-1, 1, 2}
\* What the wrapped inner loop may return: success, an error, a positive code.
InnerResults == {0, -1, 1}

NULL == "NULL"
\* A null pointer where the model holds a record (an object, a descriptor).
NoObject == [null |-> TRUE]
NullDescr == [cls |-> NULL]

----
\* ===================== masked strided loop adapter =====================

\* data[i], the start pointer of data operand i, as given by the caller.
data(i) == 1000 * i

Masks == UNION {[1..n -> BOOLEAN] : n \in 0..MaxLen}

\* The byte the mask pointer p designates: element k lies at offset k * stride.
MaskByte(msk, p, stride) ==
    LET k == CHOOSE j \in 0..Len(msk) : j * stride = p
    IN  msk[k + 1]

\* npy_memchr(haystack, 0, stride, size, &subloopsize, invert): the number of
\* leading elements that are zero (invert) or non-zero (not invert), at most
\* size, and the pointer behind them.
RECURSIVE memchr_count(_, _, _, _, _)
memchr_count(msk, p, stride, size, invert) ==
    IF size > 0 /\ (MaskByte(msk, p, stride) = ~invert)
    THEN 1 + memchr_count(msk, p + stride, stride, size - 1, invert)
    ELSE 0

\* A faulty search that runs one element past the end of the buffer.
npy_memchr_overrun(msk, p, stride, size, invert) ==
    LET n == memchr_count(msk, p, stride, size, invert)
        m == IF n = size /\ size > 0 THEN n + 1 ELSE n
    IN  [p |-> p + m * stride, subloopsize |-> m]

npy_memchr(msk, p, stride, size, invert) ==
    LET n == memchr_count(msk, p, stride, size, invert)
    IN  [p |-> p + n * stride, subloopsize |-> n]

\* A faulty advance that moves every pointer by one byte per element.
AdvanceDataptrs_unitstride(ptrs, subloopsize, strd) ==
    [i \in DOMAIN ptrs |-> ptrs[i] + subloopsize]

\* for (i < nargs) dataptrs[i] += subloopsize * strides[i];
AdvanceDataptrs(ptrs, subloopsize, strd) ==
    [i \in DOMAIN ptrs |-> ptrs[i] + subloopsize * strd[i]]

MaskedInit ==
    /\ mask \in Masks
    /\ nargs \in 0..MaxMaskedArgs
    /\ strides \in UNION {[1..(n + 1) -> DataStrides \cup MaskStrides] : n \in 0..MaxMaskedArgs}
    /\ Len(strides) = nargs + 1
    /\ \A i \in 1..nargs : strides[i] \in DataStrides
    /\ strides[nargs + 1] \in MaskStrides
    /\ N = Len(mask)
    /\ maskptr = 0
    /\ dataptrs = [i \in 1..nargs |-> data(i)]
    /\ calls = <<>>
    /\ mpc = "skip"
    /\ mret = 0
    /\ spec = NoObject
    /\ private = FALSE
    /\ bound = NoObject
    /\ ctor = [status |-> "start"]
    /\ last = [op |-> "none"]

\* Skip masked values (the first half of one iteration of the do-while).
SkipMasked ==
    /\ mpc = "skip"
    /\ LET r == npy_memchr(mask, maskptr, strides[nargs + 1], N, TRUE)
       IN  /\ maskptr' = r.p
           /\ dataptrs' = AdvanceDataptrs(dataptrs, r.subloopsize, strides)
           /\ N' = N - r.subloopsize
    /\ mpc' = "process"
    /\ UNCHANGED <<mask, nargs, strides, calls, mret>>
    /\ UNCHANGED methVars

\* Process unmasked values: the inner loop is called on the run found, and a
\* non-zero result is returned at once; otherwise the pointers advance and
\* the do-while tests N > 0.
ProcessUnmasked ==
    /\ mpc = "process"
    /\ \E res \in InnerResults :
         LET r == npy_memchr(mask, maskptr, strides[nargs + 1], N, FALSE)
             call == [ptrs |-> dataptrs, len |-> r.subloopsize,
                      off |-> Len(mask) - N, res |-> res]
         IN  /\ maskptr' = r.p
             /\ calls' = Append(calls, call)
             /\ IF res # 0
                THEN /\ mret' = res
                     /\ mpc' = "done"
                     /\ UNCHANGED <<dataptrs, N>>
                ELSE /\ dataptrs' = AdvanceDataptrs(dataptrs, r.subloopsize, strides)
                     /\ N' = N - r.subloopsize
                     /\ mret' = 0
                     /\ mpc' = IF N' > 0 THEN "skip" ELSE "done"
    /\ UNCHANGED <<mask, nargs, strides>>
    /\ UNCHANGED methVars

MaskedNext == SkipMasked \/ ProcessUnmasked

SpecMasked == MaskedInit /\ [][MaskedNext]_vars

----
\* ------------- properties of the masked adapter -------------

\* The element positions (1-based) the invocations cs cover, in call order.
RECURSIVE Covered(_)
Covered(cs) ==
    IF cs = <<>> THEN <<>>
    ELSE [i \in 1..Head(cs).len |-> Head(cs).off + i] \o Covered(Tail(cs))

\* The positions among the first n whose mask entry is true, increasing.
TruePositions(msk, n) == SelectSeq([i \in 1..n |-> i], LAMBDA i : msk[i])

RECURSIVE SumLens(_)
SumLens(cs) == IF cs = <<>> THEN 0 ELSE Head(cs).len + SumLens(Tail(cs))

InnerAlwaysZero == \A k \in 1..Len(calls) : calls[k].res = 0

\* The lengths of the maximal contiguous runs of true entries, in mask order.
RECURSIVE RunsFrom(_, _, _)
RunsFrom(msk, i, cur) ==
    LET flush == IF cur > 0 THEN <<cur>> ELSE <<>>
    IN  IF i > Len(msk) THEN flush
        ELSE IF msk[i] THEN RunsFrom(msk, i + 1, cur + 1)
        ELSE flush \o RunsFrom(msk, i + 1, 0)

MaximalRuns(msk) == RunsFrom(msk, 1, 0)

\* C1: with an inner loop that always returns 0, every invocation's data
\* pointers are start + offset * stride, the positions covered by the
\* invocations so far are exactly the true positions among the elements
\* consumed so far, each once and in increasing order, and on return all N
\* elements are consumed, so the run lengths sum to the number of true entries.
C1_MaskedCoversExactlyTrue ==
    InnerAlwaysZero =>
        /\ \A k \in 1..Len(calls) : \A i \in 1..nargs :
               calls[k].ptrs[i] = data(i) + calls[k].off * strides[i]
        /\ Covered(calls) = TruePositions(mask, Len(mask) - N)
        /\ mpc = "done" =>
               /\ N = 0
               /\ mret = 0
               /\ SumLens(calls) = Cardinality({i \in 1..Len(mask) : mask[i]})

C1_Witness ==
    /\ mpc = "done"
    /\ mret = 0
    /\ mask = <<TRUE, TRUE, FALSE, FALSE, TRUE>>
    /\ nargs = 2
    /\ strides[1] = 8
    /\ Covered(calls) = <<1, 2, 5>>

\* C2: on a successful return the lengths the inner loop was invoked with
\* are exactly the lengths of the maximal runs of true entries of the mask.
C2_RunsAreMaximalRuns ==
    (mpc = "done" /\ mret = 0) =>
        [k \in 1..Len(calls) |-> calls[k].len] = MaximalRuns(mask)

----
\* ============== type classes, instances, casting levels, flags ==============

\* The DType classes of the model: A and B are concrete and non-parametric,
\* P is parametric, Abs is abstract.  NotADType is an object that is no DType.
DTypeClasses == {"A", "B", "P", "Abs"}
NotADType == "NotADType"
abstract(dtype) == dtype = "Abs"
parametric(dtype) == dtype = "P"

\* Descriptors (instances): the class, the byte order ("=" native, "S"
\* swapped) and a tag telling apart the instances of one class and byte
\* order: "default" is the class's default instance, "new" a freshly
\* created one.
Descrs == [cls : DTypeClasses, byteorder : {"=", "S"}, tag : {"default", "other", "new"}]
NPY_DTYPE(descr) == descr.cls
PyArray_ISNBO(descr) == descr.byteorder = "="
elsize(descr) == IF descr.cls = "A" THEN 4 ELSE IF descr.cls = "B" THEN 8 ELSE 2

\* NPY_CASTING and _NPY_CAST_IS_VIEW.
NPY_NO_CASTING == 0
NPY_EQUIV_CASTING == 1
NPY_SAFE_CASTING == 2
NPY_SAME_KIND_CASTING == 3
NPY_UNSAFE_CASTING == 4
NPY_CAST_IS_VIEW == 65536
CastingLevels == {NPY_NO_CASTING, NPY_EQUIV_CASTING, NPY_SAFE_CASTING,
                  NPY_SAME_KIND_CASTING, NPY_UNSAFE_CASTING}

\* casting & ~_NPY_CAST_IS_VIEW on a two's complement int.
ClearView(casting) ==
    IF (casting \div NPY_CAST_IS_VIEW) % 2 = 1 THEN casting - NPY_CAST_IS_VIEW
    ELSE casting

\* NPY_ARRAYMETHOD_FLAGS, as the set of the flags that are set.
NPY_METH_REQUIRES_PYAPI == "REQUIRES_PYAPI"
NPY_METH_NO_FLOATINGPOINT_ERRORS == "NO_FLOATINGPOINT_ERRORS"
NPY_METH_SUPPORTS_UNALIGNED == "SUPPORTS_UNALIGNED"
NPY_METH_RUNTIME_FLAGS == {NPY_METH_REQUIRES_PYAPI, NPY_METH_NO_FLOATINGPOINT_ERRORS}

NPY_MAXARGS == 32

\* What a read through a null pointer may do: fault, or yield some value
\* that the test it feeds takes for true or for false.
NullReads == {"crash", "true", "false"}
\* The null reads of construction: PyObject_TypeCheck(NULL, ...),
\* NULL->abstract and NULL->parametric.  They happen only for a specification
\* with a null DType, so only then is there a choice to make.
UBChoices == [typecheck : NullReads, abstract : NullReads, parametric : NullReads]
UBChoicesOf(sp) ==
    IF \E i \in DOMAIN sp.dtypes : sp.dtypes[i] = NULL
    THEN UBChoices
    ELSE {[typecheck |-> "crash", abstract |-> "crash", parametric |-> "crash"]}

----
\* ========================= method construction =========================

Ok == [status |-> "ok"]
Crash == [status |-> "crash"]
Error(exc, why) == [status |-> "error", exc |-> exc, why |-> why]

SlotIds == {"resolve_descriptors", "get_loop", "strided_loop", "contiguous_loop",
            "unaligned_strided_loop", "unaligned_contiguous_loop"}

\* for (i < nargs) { ... } of validate_spec, from slot i on (slots are 1-based
\* here: slot i is an input iff i <= nin).
RECURSIVE validate_dtypes(_, _, _)
validate_dtypes(sp, ub, i) ==
    IF i > sp.nin + sp.nout THEN Ok
    ELSE LET dt == sp.dtypes[i]
         IN  IF dt = NULL /\ i <= sp.nin
             THEN Error("TypeError", "undefined input DType")
             ELSE IF dt = NULL
             THEN \* PyObject_TypeCheck(NULL, ...) and NULL->abstract
                  IF ub.typecheck = "crash" THEN Crash
                  ELSE IF ub.typecheck = "false" THEN Error("TypeError", "not a DType")
                  ELSE IF ub.abstract = "crash" THEN Crash
                  ELSE validate_dtypes(sp, ub, i + 1)
             ELSE IF dt \notin DTypeClasses
             THEN Error("TypeError", "not a DType")
             ELSE IF abstract(dt) /\ i <= sp.nin
             THEN Error("TypeError", "abstract input DType")
             ELSE validate_dtypes(sp, ub, i + 1)

\* A faulty validation that does not look at the casting value.
validate_spec_nocasting(sp, ub) ==
    IF sp.nin < 0 \/ sp.nout < 0 \/ sp.nin + sp.nout > NPY_MAXARGS
    THEN Error("ValueError", "arity")
    ELSE validate_dtypes(sp, ub, 1)

validate_spec(sp, ub) ==
    IF sp.nin < 0 \/ sp.nout < 0 \/ sp.nin + sp.nout > NPY_MAXARGS
    THEN Error("ValueError", "arity")
    ELSE IF ClearView(sp.casting) \notin CastingLevels /\ sp.casting # -1
    THEN Error("TypeError", "invalid casting")
    ELSE validate_dtypes(sp, ub, 1)

\* The slot loop of fill_arraymethod_from_slots, from slot entry k on.
RECURSIVE fill_slots(_, _, _, _)
fill_slots(meth, slots, k, priv) ==
    IF k > Len(slots) THEN [status |-> "ok", meth |-> meth]
    ELSE LET slot == slots[k].slot
             pfunc == slots[k].pfunc
         IN  IF slot = "resolve_descriptors"
             THEN fill_slots([meth EXCEPT !.resolve_descriptors = pfunc], slots, k + 1, priv)
             ELSE IF slot = "get_loop" /\ priv
             THEN fill_slots([meth EXCEPT !.get_strided_loop = pfunc], slots, k + 1, priv)
             ELSE IF slot = "strided_loop"
             THEN fill_slots([meth EXCEPT !.strided_loop = pfunc], slots, k + 1, priv)
             ELSE IF slot = "contiguous_loop"
             THEN fill_slots([meth EXCEPT !.contiguous_loop = pfunc], slots, k + 1, priv)
             ELSE IF slot = "unaligned_strided_loop"
             THEN fill_slots([meth EXCEPT !.unaligned_strided_loop = pfunc], slots, k + 1, priv)
             ELSE IF slot = "unaligned_contiguous_loop"
             THEN fill_slots([meth EXCEPT !.unaligned_contiguous_loop = pfunc], slots, k + 1, priv)
             ELSE Error("RuntimeError", "invalid slot")

\* The checks made when the default resolver remains, from slot i on.
RECURSIVE check_default_resolver(_, _, _, _)
check_default_resolver(meth, dtypes, ub, i) ==
    IF i > meth.nin + meth.nout THEN Ok
    ELSE IF dtypes[i] = NULL /\ i <= meth.nin
    THEN Error("TypeError", "undefined input DType")
    ELSE IF dtypes[i] = NULL /\ meth.nin = 0
    THEN Error("TypeError", "undefined output without inputs")
    ELSE IF i > meth.nin /\ dtypes[i] = NULL
    THEN \* res->dtypes[i]->parametric reads through NULL
         IF ub.parametric = "crash" THEN Crash
         ELSE IF ub.parametric = "true" THEN Error("TypeError", "parametric output")
         ELSE check_default_resolver(meth, dtypes, ub, i + 1)
    ELSE IF i > meth.nin /\ parametric(dtypes[i])
    THEN Error("TypeError", "parametric output")
    ELSE check_default_resolver(meth, dtypes, ub, i + 1)

\* A faulty check that does not compare the unaligned loop with the flag.
check_loops_noflag(meth) ==
    IF meth.strided_loop = NULL
    THEN Error("TypeError", "no strided loop")
    ELSE LET m2 == IF meth.contiguous_loop = NULL
                   THEN [meth EXCEPT !.contiguous_loop = meth.strided_loop]
                   ELSE meth
         IN  IF m2.unaligned_contiguous_loop # NULL /\ m2.unaligned_strided_loop = NULL
             THEN Error("TypeError", "unaligned contiguous without unaligned strided")
             ELSE [status |-> "ok", meth |-> m2]

\* The checks of the loops when the default get_strided_loop remains.
check_loops(meth) ==
    IF meth.strided_loop = NULL
    THEN Error("TypeError", "no strided loop")
    ELSE LET m2 == IF meth.contiguous_loop = NULL
                   THEN [meth EXCEPT !.contiguous_loop = meth.strided_loop]
                   ELSE meth
         IN  IF m2.unaligned_contiguous_loop # NULL /\ m2.unaligned_strided_loop = NULL
             THEN Error("TypeError", "unaligned contiguous without unaligned strided")
             ELSE IF (m2.unaligned_strided_loop = NULL) #
                     (NPY_METH_SUPPORTS_UNALIGNED \notin m2.flags)
             THEN Error("TypeError", "unaligned strided loop does not match flag")
             ELSE [status |-> "ok", meth |-> m2]

fill_arraymethod_from_slots(meth0, dtypes, sp, priv, ub) ==
    LET defaults == [meth0 EXCEPT !.get_strided_loop = "npy_default_get_strided_loop",
                                  !.resolve_descriptors = "default_resolve_descriptors"]
        filled == fill_slots(defaults, sp.slots, 1, priv)
    IN  IF filled.status # "ok" THEN filled
        ELSE LET meth == filled.meth
                 chk == IF meth.resolve_descriptors = "default_resolve_descriptors"
                        THEN IF sp.casting = -1
                             THEN Error("TypeError", "casting -1 with default resolver")
                             ELSE check_default_resolver(meth, dtypes, ub, 1)
                        ELSE Ok
             IN  IF chk.status # "ok" THEN chk
                 ELSE IF meth.get_strided_loop # "npy_default_get_strided_loop"
                 THEN [status |-> "ok", meth |-> meth]
                 ELSE check_loops(meth)

\* The outcome of PyArrayMethod_FromSpec_int: the bound method (res) or NULL,
\* and how it ended.  Memory allocation is taken to succeed.
PyArrayMethod_FromSpec_int(sp, priv, ub) ==
    LET v == validate_spec(sp, ub)
    IN  IF v.status # "ok" THEN [res |-> NoObject, ctor |-> v]
        ELSE LET meth0 == [nin |-> sp.nin, nout |-> sp.nout, flags |-> sp.flags,
                           casting |-> sp.casting,
                           resolve_descriptors |-> NULL, get_strided_loop |-> NULL,
                           strided_loop |-> NULL, contiguous_loop |-> NULL,
                           unaligned_strided_loop |-> NULL,
                           unaligned_contiguous_loop |-> NULL]
                 f == fill_arraymethod_from_slots(meth0, sp.dtypes, sp, priv, ub)
             IN  IF f.status # "ok" THEN [res |-> NoObject, ctor |-> f]
                 ELSE [res |-> [method |-> f.meth, dtypes |-> sp.dtypes],
                       ctor |-> Ok]

\* The call of PyArrayMethod_FromSpec_int(spec, private).
Construct ==
    /\ ctor.status = "start"
    /\ \E ub \in UBChoicesOf(spec) :
         LET r == PyArrayMethod_FromSpec_int(spec, private, ub)
         IN  /\ bound' = r.res
             /\ ctor' = r.ctor
    /\ UNCHANGED <<spec, private, last>>
    /\ UNCHANGED maskedVars

----
\* ====================== default descriptor resolution ======================

\* An entry of output_descrs the resolver has not written: the caller's
\* array is an uninitialized automatic array.
Uninit == [cls |-> "UNINIT"]

\* ensure_dtype_nbo(descr): descr itself (a new reference) when it is in
\* native byte order, else a new native copy, or NULL when that fails.
ensure_dtype_nbo(descr, fails) ==
    IF PyArray_ISNBO(descr) THEN descr
    ELSE IF fails THEN NullDescr
    ELSE [cls |-> descr.cls, byteorder |-> "=", tag |-> "new"]

\* dtype->default_descr(dtype): the default instance, or NULL when it fails.
default_descr(dtype, fails) ==
    IF fails THEN NullDescr
    ELSE [cls |-> dtype, byteorder |-> "=", tag |-> "default"]

\* PyArray_CommonDType(a, b): the common class, NULL (with an error set)
\* when there is none.
PyArray_CommonDType(a, b) ==
    IF a = b THEN a
    ELSE IF {a, b} = {"A", "B"} THEN "B"
    ELSE NULL

\* PyArray_MinCastSafety(casting1, casting2): the less safe of the two
\* levels; the view flag stays only if both have it.
PyArray_MinCastSafety(casting1, casting2) ==
    IF casting1 < 0 \/ casting2 < 0 THEN -1
    ELSE LET view == IF casting1 >= NPY_CAST_IS_VIEW /\ casting2 >= NPY_CAST_IS_VIEW
                     THEN NPY_CAST_IS_VIEW ELSE 0
             c1 == ClearView(casting1)
             c2 == ClearView(casting2)
         IN  IF c1 > c2 THEN c1 + view ELSE c2 + view

\* The instance stored for a slot of class dtype given the instance descr:
\*     if (NPY_DTYPE(descr) == dtype) ensure_dtype_nbo(descr);
\*     else dtype->default_descr(dtype);
\* "crash" when the read of the class of a null descr faults (or its value
\* sends a null descr into ensure_dtype_nbo).
instance_always_default(dtype, descr, fails, ub) ==
    IF descr = NullDescr /\ ub = "crash" THEN Crash
    ELSE [status |-> "ok", descr |-> default_descr(dtype, fails)]

instance_for(dtype, descr, fails, ub) ==
    IF descr = NullDescr
    THEN IF ub = "crash" \/ ub = "true" THEN Crash
         ELSE [status |-> "ok", descr |-> default_descr(dtype, fails)]
    ELSE IF NPY_DTYPE(descr) = dtype
    THEN [status |-> "ok", descr |-> ensure_dtype_nbo(descr, fails)]
    ELSE [status |-> "ok", descr |-> default_descr(dtype, fails)]

\* The fail: label: Py_XDECREF of every entry of output_descrs, return -1.
resolve_fail(out, exc) ==
    [status |-> "fail", casting |-> -1, out |-> out, err |-> exc, released |-> out]

\* The first loop of default_resolve_descriptors from slot i on; its result
\* is the state after the loop, or the failure it ran into.
RECURSIVE resolve_defined(_, _, _, _, _, _)
resolve_defined(dtypes, input_descrs, env, i, out, all_defined) ==
    IF i > Len(dtypes)
    THEN [status |-> "ok", out |-> out, all_defined |-> all_defined]
    ELSE IF dtypes[i] = NULL
    THEN resolve_defined(dtypes, input_descrs, env, i + 1,
                         [out EXCEPT ![i] = NullDescr], FALSE)
    ELSE LET inst == instance_for(dtypes[i], input_descrs[i], i \in env.failing,
                                  env.descrtype)
         IN  IF inst.status = "crash" THEN Crash
             ELSE IF inst.descr = NullDescr
             THEN resolve_fail([out EXCEPT ![i] = NullDescr], "MemoryError")
             ELSE resolve_defined(dtypes, input_descrs, env, i + 1,
                                  [out EXCEPT ![i] = inst.descr], all_defined)

\* The common DType of the inputs dtypes[1..nin], NULL when there is none.
RECURSIVE common_of(_, _, _, _)
common_of(dtypes, nin, i, common) ==
    IF i > nin \/ common = NULL THEN common
    ELSE common_of(dtypes, nin, i + 1, PyArray_CommonDType(common, dtypes[i]))

\* A faulty last loop that reports no-casting instead of the stored level.
RECURSIVE resolve_undefined_nocasting(_, _, _, _, _, _)
resolve_undefined_nocasting(meth, common_dtype, input_descrs, env, i, out) ==
    IF i > meth.nin + meth.nout
    THEN [status |-> "ok", casting |-> NPY_NO_CASTING, out |-> out,
          err |-> NULL, released |-> <<>>]
    ELSE IF out[i] # NullDescr
    THEN resolve_undefined_nocasting(meth, common_dtype, input_descrs, env, i + 1, out)
    ELSE LET inst == instance_for(common_dtype, input_descrs[i], i \in env.failing,
                                  env.descrtype)
         IN  IF inst.status = "crash" THEN Crash
             ELSE IF inst.descr = NullDescr
             THEN resolve_fail(out, "MemoryError")
             ELSE resolve_undefined_nocasting(meth, common_dtype, input_descrs, env,
                                              i + 1, [out EXCEPT ![i] = inst.descr])

\* The last loop of default_resolve_descriptors: the outputs left NULL.
RECURSIVE resolve_undefined(_, _, _, _, _, _)
resolve_undefined(meth, common_dtype, input_descrs, env, i, out) ==
    IF i > meth.nin + meth.nout
    THEN [status |-> "ok", casting |-> meth.casting, out |-> out,
          err |-> NULL, released |-> <<>>]
    ELSE IF out[i] # NullDescr
    THEN resolve_undefined(meth, common_dtype, input_descrs, env, i + 1, out)
    ELSE LET inst == instance_for(common_dtype, input_descrs[i], i \in env.failing,
                                  env.descrtype)
         IN  IF inst.status = "crash" THEN Crash
             ELSE IF inst.descr = NullDescr
             THEN resolve_fail(out, "MemoryError")
             ELSE resolve_undefined(meth, common_dtype, input_descrs, env, i + 1,
                                    [out EXCEPT ![i] = inst.descr])

\* default_resolve_descriptors(method, dtypes, input_descrs, output_descrs):
\* the casting returned, output_descrs, the error set and what was released.
\* env.failing are the slots whose instantiation fails, env.descrtype is
\* what reading the class of a null instance does.
default_resolve_descriptors(meth, dtypes, input_descrs, env) ==
    LET n == meth.nin + meth.nout
        first == resolve_defined(dtypes, input_descrs, env, 1,
                                 [i \in 1..n |-> Uninit], TRUE)
    IN  IF first.status # "ok" THEN first
        ELSE IF first.all_defined
        THEN [status |-> "ok", casting |-> meth.casting, out |-> first.out,
              err |-> NULL, released |-> <<>>]
        ELSE IF meth.nin = 0 \/ dtypes[1] = NULL
        THEN resolve_fail(first.out, "RuntimeError")
        ELSE LET common_dtype == common_of(dtypes, meth.nin, 2, dtypes[1])
             IN  IF common_dtype = NULL
                 THEN resolve_fail(first.out, "TypeError")
                 ELSE resolve_undefined(meth, common_dtype, input_descrs, env,
                                        meth.nin + 1, first.out)

----
\* ======================= _resolve_descriptors(tuple) =======================

\* What a tuple item may be besides a descriptor: None, or some other object.
PyNone == [cls |-> "None"]
NotADescr == [cls |-> "object"]

\* method->resolve_descriptors(method, dtypes, given_descrs, loop_descrs):
\* the default resolver, or a custom one, whose result env.custom is any.
resolve_descriptors(meth, dtypes, given_descrs, env) ==
    IF meth.resolve_descriptors = "default_resolve_descriptors"
    THEN default_resolve_descriptors(meth, dtypes, given_descrs, env)
    ELSE env.custom

\* The loop over the tuple items from item i on: given_descrs, or the error.
RECURSIVE given_from_tuple(_, _, _, _)
given_from_tuple(self, items, i, given) ==
    IF i > Len(items) THEN [status |-> "ok", given |-> given]
    ELSE IF items[i] = PyNone
    THEN IF i <= self.method.nin
         THEN Error("TypeError", "only output dtypes may be omitted")
         ELSE given_from_tuple(self, items, i + 1, [given EXCEPT ![i] = NullDescr])
    ELSE IF items[i] \in Descrs
    THEN IF items[i].cls # self.dtypes[i]
         THEN Error("TypeError", "not an exact instance of the bound DType")
         ELSE given_from_tuple(self, items, i + 1, [given EXCEPT ![i] = items[i]])
    ELSE Error("TypeError", "not a dtype instance or None")

\* for (i < nin + nout) if (self->dtypes[i]->parametric) { parametric = 1;
\* break; } : "true", "false", or "crash" when the read through a null
\* DType faults.
RECURSIVE any_parametric(_, _, _)
any_parametric(dtypes, ub, i) ==
    IF i > Len(dtypes) THEN "false"
    ELSE IF dtypes[i] = NULL
    THEN IF ub = "false" THEN any_parametric(dtypes, ub, i + 1) ELSE ub
    ELSE IF parametric(dtypes[i]) THEN "true"
    ELSE any_parametric(dtypes, ub, i + 1)

\* A faulty check of the returned casting that accepts any level at least
\* as safe as the stored one.
casting_check_onlymin(meth, casting, is_parametric) ==
    LET cast == ClearView(casting)
    IN  IF meth.casting = -1 THEN Ok
        ELSE IF meth.casting # PyArray_MinCastSafety(cast, meth.casting)
        THEN Error("RuntimeError", "cast level did not match stored one")
        ELSE Ok

\* The debugging checks of the casting level the resolver returned.
casting_check(meth, casting, is_parametric) ==
    LET cast == ClearView(casting)
    IN  IF meth.casting = -1 THEN Ok
        ELSE IF meth.casting # PyArray_MinCastSafety(cast, meth.casting)
        THEN Error("RuntimeError", "cast level did not match stored one")
        ELSE IF ~is_parametric /\ cast # meth.casting
                /\ meth.casting # NPY_EQUIV_CASTING
        THEN Error("RuntimeError", "cast level changed for non-parametric")
        ELSE Ok

\* boundarraymethod__resolve_descripors(self, descr_tuple): what it returns
\* (kind "result" with the value, "error" with the exception set, "crash"),
\* with r what the resolver returned, if it was called.
boundarraymethod__resolve_descripors(self, descr_tuple, env) ==
    LET n == self.method.nin + self.method.nout
        NotCalled == [status |-> "not called"]
    IN  IF ~descr_tuple.is_tuple \/ Len(descr_tuple.items) # n
        THEN [kind |-> "error", exc |-> "TypeError", r |-> NotCalled]
        ELSE LET g == given_from_tuple(self, descr_tuple.items, 1,
                                       [i \in 1..n |-> Uninit])
             IN  IF g.status # "ok"
                 THEN [kind |-> "error", exc |-> g.exc, r |-> NotCalled]
                 ELSE LET r == resolve_descriptors(self.method, self.dtypes, g.given, env)
                      IN  IF r.status = "crash" THEN [kind |-> "crash", r |-> r]
                          ELSE IF r.casting < 0 /\ r.err # NULL
                          THEN [kind |-> "error", exc |-> r.err, r |-> r]
                          ELSE IF r.casting < 0
                          THEN [kind |-> "result", casting |-> r.casting,
                                descrs |-> PyNone, r |-> r]
                          ELSE LET par == any_parametric(self.dtypes, env.parametric, 1)
                                   chk == casting_check(self.method, r.casting, par = "true")
                               IN  IF par = "crash" THEN [kind |-> "crash", r |-> r]
                                   ELSE IF chk.status # "ok"
                                   THEN [kind |-> "error", exc |-> chk.exc, r |-> r]
                                   ELSE [kind |-> "result", casting |-> r.casting,
                                         descrs |-> r.out, r |-> r]

----
\* ============================ loop selection ============================

\* A faulty contiguity test that looks at the first operand only.
is_contiguous_firstonly(strd, descriptors, n) ==
    \A i \in 1..n : i = 1 => strd[i] = elsize(descriptors[i])

is_contiguous(strd, descriptors, n) ==
    \A i \in 1..n : strd[i] = elsize(descriptors[i])

\* npy_default_get_strided_loop(context, aligned, move_references, strides,
\* &out_loop, &out_transferdata, &flags): the return value and the outputs.
npy_default_get_strided_loop(context, aligned, strd) ==
    LET descrs == context.descriptors
        meth == context.method
        n == meth.nin + meth.nout
        out_loop ==
            IF aligned
            THEN IF meth.contiguous_loop = NULL \/ ~is_contiguous(strd, descrs, n)
                 THEN meth.strided_loop
                 ELSE meth.contiguous_loop
            ELSE IF meth.unaligned_contiguous_loop = NULL \/ ~is_contiguous(strd, descrs, n)
                 THEN meth.unaligned_strided_loop
                 ELSE meth.unaligned_contiguous_loop
    IN  [ret |-> 0, out_loop |-> out_loop, out_transferdata |-> NULL,
         flags |-> meth.flags \cap NPY_METH_RUNTIME_FLAGS]

----
\* ======================= _simple_strided_call(tuple) =======================

NotAnArray == [kind |-> "object"]

\* PyArray_FailUnlessWriteable(arr, name): -1 with a ValueError set when the
\* array is read-only.
PyArray_FailUnlessWriteable(arr) ==
    IF arr.writeable THEN Ok ELSE Error("ValueError", "read-only")

\* The first loop of _simple_strided_call from item i on (1-based: the code's
\* index is i - 1), with the length and the alignment found so far.
RECURSIVE check_arrays(_, _, _, _, _)
check_arrays(self, items, i, length, aligned) ==
    IF i > Len(items)
    THEN [status |-> "ok", length |-> length, aligned |-> aligned]
    ELSE LET arr == items[i]
         IN  IF arr = NotAnArray
             THEN Error("TypeError", "not an array")
             ELSE IF arr.descr.cls # self.dtypes[i]
             THEN Error("TypeError", "not an exact instance of the bound DType")
             ELSE IF arr.ndim # 1
             THEN Error("ValueError", "not one dimensional")
             ELSE IF i # 1 /\ arr.size # length
             THEN Error("ValueError", "lengths differ")
             ELSE IF i - 1 >= self.method.nout
                     /\ PyArray_FailUnlessWriteable(arr).status # "ok"
             THEN [status |-> "error", exc |-> "ValueError", why |-> "read-only",
                   slot |-> i]
             ELSE check_arrays(self, items, i + 1,
                               IF i = 1 THEN arr.size ELSE length,
                               aligned /\ arr.aligned)

\* A faulty test that takes instances of one class for the same instance.
dtypes_were_adapted_byclass(descrs, out_descrs, n) ==
    \E i \in 1..n : descrs[i].cls # out_descrs[i].cls

\* dtypes_were_adapted |= descrs[i] != out_descrs[i], for every slot.
dtypes_were_adapted(descrs, out_descrs, n) ==
    \E i \in 1..n : descrs[i] # out_descrs[i]

\* method->get_strided_loop(&context, aligned, 0, strides, ...): the default
\* selector, or a custom one, whose result env.selector is any.
get_strided_loop(context, aligned, strd, env) ==
    IF context.method.get_strided_loop = "npy_default_get_strided_loop"
    THEN npy_default_get_strided_loop(context, aligned, strd)
    ELSE env.selector

\* The end of _simple_strided_call once the loop is selected: the loop is
\* called, the auxiliary data freed, the result turned into the return value.
run_selected_loop(sel, length, loop_res) ==
    [ret |-> IF loop_res < 0 THEN "NULL" ELSE "None",
     exc |-> IF loop_res < 0 THEN "loop error" ELSE NULL,
     loop_calls |-> <<[loop |-> sel.out_loop, length |-> length,
                       auxdata |-> sel.out_transferdata, res |-> loop_res]>>,
     freed |-> IF sel.out_transferdata # NULL THEN <<sel.out_transferdata>> ELSE <<>>]

\* boundarraymethod__simple_strided_call(self, arr_tuple): the value returned
\* ("None", or "NULL" with exc set), whether the resolver and the selector
\* were called and with what result, the calls of the inner loop, and the
\* auxiliary data freed.
boundarraymethod__simple_strided_call(self, arr_tuple, env) ==
    LET n == self.method.nin + self.method.nout
        NotCalled == [status |-> "not called"]
        Fail(e, r, sel) == [ret |-> "NULL", exc |-> e.exc, why |-> e.why, err |-> e,
                            r |-> r, sel |-> sel, loop_calls |-> <<>>, freed |-> <<>>]
    IN  IF ~arr_tuple.is_tuple \/ Len(arr_tuple.items) # n
        THEN Fail(Error("TypeError", "tuple"), NotCalled, NotCalled)
        ELSE LET c == check_arrays(self, arr_tuple.items, 1, -1, TRUE)
             IN  IF c.status # "ok" THEN Fail(c, NotCalled, NotCalled)
                 ELSE IF ~c.aligned /\ NPY_METH_SUPPORTS_UNALIGNED \notin self.method.flags
                 THEN Fail(Error("ValueError", "unaligned"), NotCalled, NotCalled)
                 ELSE
    LET descrs == [i \in 1..n |-> arr_tuple.items[i].descr]
        strd == [i \in 1..n |-> arr_tuple.items[i].stride]
        r == resolve_descriptors(self.method, self.dtypes, descrs, env)
    IN  IF r.casting < 0
        THEN Fail(Error("TypeError", "cannot perform method call"), r, NotCalled)
        ELSE IF dtypes_were_adapted(descrs, r.out, n)
        THEN Fail(Error("TypeError", "dtypes were adapted"), r, NotCalled)
        ELSE
    LET context == [method |-> self.method, descriptors |-> descrs]
        sel == get_strided_loop(context, c.aligned, strd, env)
    IN  IF sel.ret < 0
        THEN Fail(Error("selector error", "get_strided_loop failed"), r, sel)
        ELSE LET run == run_selected_loop(sel, c.length, env.loop_res)
             IN  [ret |-> run.ret, exc |-> run.exc, why |-> "loop", err |-> Ok,
                  r |-> r, sel |-> sel, loop_calls |-> run.loop_calls,
                  freed |-> run.freed]

\* The states outside the masked adapter: it is not running.
MaskedIdle ==
    /\ mask = <<>>
    /\ nargs = 0
    /\ strides = <<1>>
    /\ N = 0
    /\ maskptr = 0
    /\ dataptrs = <<>>
    /\ calls = <<>>
    /\ mpc = "idle"
    /\ mret = 0

----
\* ---------------- construction from slot tables ----------------

\* The slot entries the slot tables are made of; "unknown" is a slot
\* identifier that is none of the known ones.
SlotEntries ==
    {[slot |-> "strided_loop", pfunc |-> "f"],
     [slot |-> "strided_loop", pfunc |-> NULL],
     [slot |-> "contiguous_loop", pfunc |-> "g"],
     [slot |-> "unaligned_strided_loop", pfunc |-> "uf"],
     [slot |-> "unaligned_strided_loop", pfunc |-> NULL],
     [slot |-> "unaligned_contiguous_loop", pfunc |-> "ug"],
     [slot |-> "resolve_descriptors", pfunc |-> "custom_resolve_descriptors"],
     [slot |-> "get_loop", pfunc |-> "custom_get_strided_loop"],
     [slot |-> "unknown", pfunc |-> "f"]}

SlotTables == UNION {[1..n -> SlotEntries] : n \in 0..MaxSlots}

CtorSpecs ==
    {[nin |-> 1, nout |-> 1, casting |-> NPY_SAFE_CASTING, flags |-> fl,
      dtypes |-> <<"A", "B">>, slots |-> sl] :
        fl \in SUBSET {NPY_METH_SUPPORTS_UNALIGNED, NPY_METH_REQUIRES_PYAPI},
        sl \in SlotTables}

CtorInit ==
    /\ MaskedIdle
    /\ spec \in CtorSpecs
    /\ private \in BOOLEAN
    /\ bound = NoObject
    /\ ctor = [status |-> "start"]
    /\ last = [op |-> "none"]

CtorNext == Construct

SpecCtor == CtorInit /\ [][CtorNext]_vars

\* The function the slot table supplies for a slot: that of the last entry
\* naming it, NULL when there is none.
RECURSIVE Supplied(_, _)
Supplied(slots, id) ==
    IF slots = <<>> THEN NULL
    ELSE LET k == Len(slots)
         IN  IF slots[k].slot = id THEN slots[k].pfunc
             ELSE Supplied(SubSeq(slots, 1, k - 1), id)

BuiltinSelectorRemains(sp) == Supplied(sp.slots, "get_loop") = NULL

LoopsInconsistent(sp) ==
    \/ Supplied(sp.slots, "strided_loop") = NULL
    \/ /\ Supplied(sp.slots, "unaligned_contiguous_loop") # NULL
       /\ Supplied(sp.slots, "unaligned_strided_loop") = NULL
    \/ (Supplied(sp.slots, "unaligned_strided_loop") # NULL) #
       (NPY_METH_SUPPORTS_UNALIGNED \in sp.flags)

\* C6: a method returned with the built-in loop selector has a strided loop,
\* a contiguous loop (the strided one when none was supplied), an unaligned
\* contiguous loop only with an unaligned strided loop, and an unaligned
\* strided loop exactly when NPY_METH_SUPPORTS_UNALIGNED is set; a
\* specification violating this is rejected and no object is returned.
C6_BuiltinSelectorLoops ==
    /\ (bound # NoObject /\ bound.method.get_strided_loop = "npy_default_get_strided_loop") =>
          /\ bound.method.strided_loop # NULL
          /\ bound.method.contiguous_loop # NULL
          /\ Supplied(spec.slots, "contiguous_loop") = NULL =>
                bound.method.contiguous_loop = bound.method.strided_loop
          /\ bound.method.unaligned_contiguous_loop # NULL =>
                bound.method.unaligned_strided_loop # NULL
          /\ (bound.method.unaligned_strided_loop # NULL) <=>
                (NPY_METH_SUPPORTS_UNALIGNED \in bound.method.flags)
    /\ (ctor.status # "start" /\ BuiltinSelectorRemains(spec) /\ LoopsInconsistent(spec)) =>
          /\ bound = NoObject
          /\ ctor.status = "error"

C6_Witness ==
    /\ bound # NoObject
    /\ bound.method.get_strided_loop = "npy_default_get_strided_loop"
    /\ Supplied(spec.slots, "contiguous_loop") = NULL
    /\ bound.method.contiguous_loop = "f"
    /\ bound.method.unaligned_strided_loop = "uf"
    /\ bound.method.unaligned_contiguous_loop = "ug"

C6_WitnessRejected ==
    /\ ctor.status = "error"
    /\ ctor.why = "unaligned strided loop does not match flag"

----
\* ---------------- the default loop selector on accepted methods ----------------

\* Slot tables giving each loop at most once, in the order of the fields.
LoopSlotTables ==
    {SelectSeq(<<[slot |-> "strided_loop", pfunc |-> "f"],
                 [slot |-> "contiguous_loop", pfunc |-> c],
                 [slot |-> "unaligned_strided_loop", pfunc |-> us],
                 [slot |-> "unaligned_contiguous_loop", pfunc |-> uc]>>,
               LAMBDA e : e.pfunc # NULL) :
        c \in {NULL, "f", "g"}, us \in {NULL, "uf"}, uc \in {NULL, "ug"}}

SelectSpecs ==
    {[nin |-> Len(ins), nout |-> 1, casting |-> NPY_SAFE_CASTING, flags |-> fl,
      dtypes |-> ins \o <<"B">>, slots |-> sl] :
        ins \in {<<"A">>, <<"P">>, <<"A", "B">>},
        fl \in SUBSET {NPY_METH_SUPPORTS_UNALIGNED, NPY_METH_REQUIRES_PYAPI},
        sl \in LoopSlotTables}

\* The canonical instances of class dtype that are passed as descriptors.
CanonicalOf(dtype) ==
    {[cls |-> dtype, byteorder |-> "=", tag |-> t] :
        t \in IF parametric(dtype) THEN {"default", "other"} ELSE {"default"}}

SelectStrides == {4, 8}

SelectInit ==
    /\ MaskedIdle
    /\ spec \in SelectSpecs
    /\ private = FALSE
    /\ bound = NoObject
    /\ ctor = [status |-> "start"]
    /\ last = [op |-> "none"]

\* A caller asks the method's get_strided_loop for a loop.
GetStridedLoop ==
    /\ ctor.status = "ok"
    /\ bound.method.get_strided_loop = "npy_default_get_strided_loop"
    /\ last.op = "none"
    /\ \E aligned \in BOOLEAN :
       \E descrs \in [1..Len(bound.dtypes) -> UNION {CanonicalOf(d) : d \in DTypeClasses}] :
       \E strd \in [1..Len(bound.dtypes) -> SelectStrides] :
         /\ \A i \in 1..Len(bound.dtypes) : descrs[i].cls = bound.dtypes[i]
         /\ LET context == [method |-> bound.method, descriptors |-> descrs]
                r == npy_default_get_strided_loop(context, aligned, strd)
            IN  last' = [op |-> "get_strided_loop", aligned |-> aligned,
                         strides |-> strd, descriptors |-> descrs,
                         ret |-> r.ret, out_loop |-> r.out_loop,
                         out_transferdata |-> r.out_transferdata,
                         flags |-> r.flags]
    /\ UNCHANGED <<spec, private, bound, ctor>>
    /\ UNCHANGED maskedVars

SelectNext == Construct \/ GetStridedLoop

SpecSelect == SelectInit /\ [][SelectNext]_vars

AllContiguous ==
    \A i \in 1..Len(last.strides) : last.strides[i] = elsize(last.descriptors[i])

\* C5: on an accepted method the default selector succeeds; aligned, it gives
\* the contiguous loop if every stride equals the element size and else the
\* strided loop; unaligned, it gives the unaligned contiguous loop if that is
\* registered and every operand is contiguous and else the unaligned strided
\* loop; the auxiliary data is null and the flags are the method's runtime
\* flags.
C5_DefaultSelector ==
    last.op = "get_strided_loop" =>
        LET meth == bound.method
        IN  /\ last.ret = 0
            /\ last.out_transferdata = NULL
            /\ last.flags = {f \in meth.flags : f \in NPY_METH_RUNTIME_FLAGS}
            /\ last.aligned =>
                  /\ last.out_loop # NULL
                  /\ last.out_loop = IF AllContiguous THEN meth.contiguous_loop
                                     ELSE meth.strided_loop
            /\ ~last.aligned =>
                  last.out_loop =
                      IF meth.unaligned_contiguous_loop # NULL /\ AllContiguous
                      THEN meth.unaligned_contiguous_loop
                      ELSE meth.unaligned_strided_loop
            /\ (~last.aligned /\ AllContiguous
                    /\ Supplied(spec.slots, "unaligned_strided_loop") # NULL
                    /\ Supplied(spec.slots, "unaligned_contiguous_loop") = NULL) =>
                  last.out_loop = Supplied(spec.slots, "unaligned_strided_loop")

\* The scenario: unaligned strided loop present, unaligned contiguous loop
\* absent, an unaligned call with contiguous strides.
C5_Witness ==
    /\ last.op = "get_strided_loop"
    /\ ~last.aligned
    /\ AllContiguous
    /\ bound.method.nin = 2
    /\ bound.method.unaligned_contiguous_loop = NULL
    /\ last.out_loop = "uf"
    /\ last.ret = 0

----
\* ---------------- _resolve_descriptors on constructed methods ----------------

StridedOnly == <<[slot |-> "strided_loop", pfunc |-> "f"]>>
WithCustomResolver ==
    <<[slot |-> "strided_loop", pfunc |-> "f"],
      [slot |-> "resolve_descriptors", pfunc |-> "custom_resolve_descriptors"]>>

ResolveCastings ==
    {-1, NPY_NO_CASTING, NPY_EQUIV_CASTING, NPY_SAME_KIND_CASTING,
     NPY_SAME_KIND_CASTING + NPY_CAST_IS_VIEW}

ResolveSpecs ==
    {[nin |-> Len(ins), nout |-> 1, casting |-> c, flags |-> {},
      dtypes |-> ins \o <<out>>, slots |-> StridedOnly] :
        ins \in {<<"A">>, <<"P">>, <<"A", "A">>, <<"A", "B">>, <<"P", "A">>},
        out \in {"A", "B", "P", NULL},
        c \in ResolveCastings}
    \cup
    {[nin |-> Len(dts) - 1, nout |-> 1, casting |-> c, flags |-> {},
      dtypes |-> dts, slots |-> WithCustomResolver] :
        dts \in {<<"A", "B">>, <<"P", "B">>, <<"A", "A", NULL>>},
        c \in ResolveCastings \cup {NPY_SAFE_CASTING}}

\* The objects tried as a tuple item for a slot of class dtype: None, an
\* object that is no descriptor, instances of the class (canonical default,
\* canonical other, byte-swapped) and an instance of another class.
ItemsFor(dtype) ==
    {PyNone, NotADescr}
    \cup (IF dtype = NULL THEN {}
          ELSE {[cls |-> dtype, byteorder |-> "=", tag |-> "default"],
                [cls |-> dtype, byteorder |-> "=", tag |-> "other"],
                [cls |-> dtype, byteorder |-> "S", tag |-> "default"]})
    \cup {[cls |-> IF dtype = "A" THEN "B" ELSE "A", byteorder |-> "=",
           tag |-> "default"]}

DescrTuples(dtypes) ==
    {[is_tuple |-> TRUE, items |-> it] :
        it \in {t \in [1..Len(dtypes) -> UNION {ItemsFor(d) : d \in DTypeClasses \cup {NULL}}] :
                   \A i \in 1..Len(dtypes) : t[i] \in ItemsFor(dtypes[i])}}
    \cup {[is_tuple |-> FALSE, items |-> <<>>],
          [is_tuple |-> TRUE, items |-> <<PyNone>>]}

\* What a custom resolver may return: a level (with or without the view
\* flag) and instances, or a negative level with or without an error set.
CustomLevels ==
    {NPY_NO_CASTING, NPY_EQUIV_CASTING, NPY_SAFE_CASTING, NPY_SAME_KIND_CASTING,
     NPY_UNSAFE_CASTING, NPY_NO_CASTING + NPY_CAST_IS_VIEW,
     NPY_SAFE_CASTING + NPY_CAST_IS_VIEW}

CustomResults(dtypes) ==
    {[status |-> "ok", casting |-> c,
      out |-> [i \in 1..Len(dtypes) |->
                 default_descr(IF dtypes[i] = NULL THEN "A" ELSE dtypes[i], FALSE)],
      err |-> NULL, released |-> <<>>] : c \in CustomLevels}
    \cup
    {[status |-> "fail", casting |-> -1, out |-> <<>>, err |-> e, released |-> <<>>] :
        e \in {NULL, "TypeError"}}

\* The choices a call leaves to the environment: the slot (if any) whose
\* instantiation fails, what the null reads do, what a custom resolver returns.
ResolveEnvs(self) ==
    [failing : {{}} \cup {{k} : k \in 1..Len(self.dtypes)},
     descrtype : NullReads,
     parametric : IF \E i \in 1..Len(self.dtypes) : self.dtypes[i] = NULL
                  THEN NullReads ELSE {"crash"},
     custom : IF self.method.resolve_descriptors = "default_resolve_descriptors"
              THEN {NoObject} ELSE CustomResults(self.dtypes)]

ResolveInit ==
    /\ MaskedIdle
    /\ spec \in ResolveSpecs
    /\ private = FALSE
    /\ bound = NoObject
    /\ ctor = [status |-> "start"]
    /\ last = [op |-> "none"]

\* bound._resolve_descriptors(descr_tuple)
ResolveDescriptors ==
    /\ ctor.status = "ok"
    /\ last.op = "none"
    /\ \E descr_tuple \in DescrTuples(bound.dtypes) :
       \E env \in ResolveEnvs(bound) :
         LET o == boundarraymethod__resolve_descripors(bound, descr_tuple, env)
         IN  last' = [op |-> "resolve", descr_tuple |-> descr_tuple, outcome |-> o]
    /\ UNCHANGED <<spec, private, bound, ctor>>
    /\ UNCHANGED maskedVars

ResolveNext == Construct \/ ResolveDescriptors

SpecResolve == ResolveInit /\ [][ResolveNext]_vars

\* The resolver was called by the last _resolve_descriptors and returned.
ResolverReturned ==
    /\ last.op = "resolve"
    /\ last.outcome.r.status \in {"ok", "fail"}

UsesDefaultResolver ==
    bound.method.resolve_descriptors = "default_resolve_descriptors"

NoNullClass == \A i \in 1..Len(bound.dtypes) : bound.dtypes[i] # NULL

IsCanonicalOf(descr, dtype) == descr \in Descrs /\ descr.cls = dtype /\ descr.byteorder = "="

\* C7: with the default resolver, all bound classes non-null, concrete and
\* non-parametric, and every slot given a canonical instance of exactly its
\* class, the resolver returns those same instances and the declared level.
C7_DefaultResolverIdentity ==
    (/\ last.op = "resolve"
     /\ UsesDefaultResolver
     /\ \A i \in 1..Len(bound.dtypes) :
           /\ bound.dtypes[i] \in DTypeClasses
           /\ ~abstract(bound.dtypes[i])
           /\ ~parametric(bound.dtypes[i])
     /\ last.descr_tuple.is_tuple
     /\ Len(last.descr_tuple.items) = Len(bound.dtypes)
     /\ \A i \in 1..Len(bound.dtypes) :
           IsCanonicalOf(last.descr_tuple.items[i], bound.dtypes[i]))
    => /\ last.outcome.r.status = "ok"
       /\ last.outcome.r.out = last.descr_tuple.items
       /\ last.outcome.r.casting = bound.method.casting

C7_Witness ==
    /\ last.op = "resolve"
    /\ UsesDefaultResolver
    /\ bound.dtypes = <<"A", "B", "A">>
    /\ bound.method.casting = NPY_EQUIV_CASTING
    /\ last.descr_tuple.items =
          <<[cls |-> "A", byteorder |-> "=", tag |-> "other"],
            [cls |-> "B", byteorder |-> "=", tag |-> "default"],
            [cls |-> "A", byteorder |-> "=", tag |-> "other"]>>
    /\ last.outcome.kind = "result"
    /\ last.outcome.descrs = last.descr_tuple.items

\* The scenario of C8: 2 inputs of class A, 1 output of null class, declared
\* casting same-kind, the default resolver, two canonical A inputs.
C8_Scenario ==
    /\ last.op = "resolve"
    /\ UsesDefaultResolver
    /\ bound.method.nin = 2
    /\ bound.method.nout = 1
    /\ bound.dtypes = <<"A", "A", NULL>>
    /\ bound.method.casting = NPY_SAME_KIND_CASTING
    /\ last.outcome.r.status # "not called"
    /\ IsCanonicalOf(last.descr_tuple.items[1], "A")
    /\ IsCanonicalOf(last.descr_tuple.items[2], "A")

ReturnedLevel == ClearView(last.outcome.r.casting)
MergeGivesDeclared ==
    PyArray_MinCastSafety(ReturnedLevel, bound.method.casting) = bound.method.casting
ExactOrEquivToNo ==
    \/ ReturnedLevel = bound.method.casting
    \/ bound.method.casting = NPY_EQUIV_CASTING /\ ReturnedLevel = NPY_NO_CASTING
NoParametricClass == \A i \in 1..Len(bound.dtypes) : ~parametric(bound.dtypes[i])
CastingConsistent == MergeGivesDeclared /\ (NoParametricClass => ExactOrEquivToNo)

\* C9: on a method with a declared level (and no null class), a resolver
\* return of a level gives a result only if the merge of that level (view
\* flag removed) with the declared level is the declared level and, with no
\* parametric class, the level is the declared one or the declared one is
\* equivalent and the level no-casting; otherwise a RuntimeError is raised
\* and nothing returned.  A negative level without an error set gives the
\* result (level, None) and no error.
C9_ResolveOnlyCastingCheck ==
    (ResolverReturned /\ NoNullClass) =>
        /\ (bound.method.casting # -1 /\ last.outcome.r.casting >= 0) =>
              /\ last.outcome.kind = "result" => CastingConsistent
              /\ ~CastingConsistent =>
                    /\ last.outcome.kind = "error"
                    /\ last.outcome.exc = "RuntimeError"
              /\ CastingConsistent =>
                    /\ last.outcome.kind = "result"
                    /\ last.outcome.casting = last.outcome.r.casting
                    /\ last.outcome.descrs = last.outcome.r.out
        /\ (last.outcome.r.casting < 0 /\ last.outcome.r.err = NULL) =>
              /\ last.outcome.kind = "result"
              /\ last.outcome.casting = last.outcome.r.casting
              /\ last.outcome.descrs = PyNone

\* A declared equivalent level degraded to no-casting gives a result.
C9_Witness ==
    /\ ResolverReturned
    /\ NoNullClass
    /\ NoParametricClass
    /\ bound.method.casting = NPY_EQUIV_CASTING
    /\ last.outcome.r.casting = NPY_NO_CASTING + NPY_CAST_IS_VIEW
    /\ last.outcome.kind = "result"

C9_WitnessFault ==
    /\ ResolverReturned
    /\ NoNullClass
    /\ NoParametricClass
    /\ bound.method.casting = NPY_SAME_KIND_CASTING
    /\ last.outcome.r.casting = NPY_SAFE_CASTING
    /\ last.outcome.kind = "error"
    /\ last.outcome.exc = "RuntimeError"

C9_WitnessNone ==
    /\ ResolverReturned
    /\ last.outcome.r.casting < 0
    /\ last.outcome.r.err = NULL
    /\ last.outcome.kind = "result"
    /\ last.outcome.descrs = PyNone

----
\* ---------------- _simple_strided_call on constructed methods ----------------

CallSlotTables(fl, custom_resolver, custom_selector) ==
    <<[slot |-> "strided_loop", pfunc |-> "f"]>>
    \o (IF NPY_METH_SUPPORTS_UNALIGNED \in fl
        THEN <<[slot |-> "unaligned_strided_loop", pfunc |-> "uf"]>> ELSE <<>>)
    \o (IF custom_resolver
        THEN <<[slot |-> "resolve_descriptors", pfunc |-> "custom_resolve_descriptors"]>>
        ELSE <<>>)
    \o (IF custom_selector
        THEN <<[slot |-> "get_loop", pfunc |-> "custom_get_strided_loop"]>>
        ELSE <<>>)

CallArities == {<<1, 1>>, <<2, 1>>, <<1, 2>>, <<0, 1>>, <<1, 0>>}

CallSpecs ==
    {[nin |-> a[1], nout |-> a[2], casting |-> NPY_SAFE_CASTING, flags |-> fl,
      dtypes |-> [i \in 1..(a[1] + a[2]) |-> IF i <= a[1] THEN "A" ELSE "B"],
      slots |-> CallSlotTables(fl, cr, cs)] :
        a \in CallArities, fl \in {{}, {NPY_METH_SUPPORTS_UNALIGNED}},
        cr \in BOOLEAN, cs \in BOOLEAN}

\* A one-dimensional array of 2 elements of class dtype.
ArrayOf(dtype, byteorder, writeable, aligned, k) ==
    LET descr == [cls |-> dtype, byteorder |-> byteorder, tag |-> "default"]
    IN  [kind |-> "array", descr |-> descr, ndim |-> 1, size |-> 2,
         writeable |-> writeable, aligned |-> aligned, stride |-> k * elsize(descr)]

\* The tuples of arrays tried: arrays of the bound classes in either byte
\* order, writeable or not, aligned or not, all contiguous or all with a
\* doubled stride; and tuples with one item that is no array, of another
\* class, two-dimensional or of another length; and objects that are no
\* tuple of the right size.
ArrayTuples(dtypes) ==
    LET n == Len(dtypes)
        good == UNION {[1..n -> {ArrayOf(d, b, w, al, k) :
                                    d \in {"A", "B"}, b \in {"=", "S"},
                                    w \in BOOLEAN, al \in BOOLEAN}] : k \in {1, 2}}
        fitting == {t \in good : \A i \in 1..n : t[i].descr.cls = dtypes[i]}
        base == [i \in 1..n |-> ArrayOf(dtypes[i], "=", TRUE, TRUE, 1)]
        odd(i) == {NotAnArray,
                   ArrayOf(IF dtypes[i] = "A" THEN "B" ELSE "A", "=", TRUE, TRUE, 1),
                   [base[i] EXCEPT !.ndim = 2],
                   [base[i] EXCEPT !.size = 3]}
    IN  {[is_tuple |-> TRUE, items |-> t] : t \in fitting}
        \cup {[is_tuple |-> TRUE, items |-> [base EXCEPT ![i] = x]] :
                 i \in 1..n, x \in UNION {odd(j) : j \in 1..n}}
        \cup {[is_tuple |-> FALSE, items |-> <<>>],
              [is_tuple |-> TRUE, items |-> base \o <<base[1]>>]}

\* What a custom resolver may return to the call: the given instances, the
\* given instances with one slot replaced by a new instance of its class,
\* or a negative level with or without an error set.
CallCustomResults(descrs) ==
    {[status |-> "ok", casting |-> NPY_NO_CASTING, out |-> descrs,
      err |-> NULL, released |-> <<>>]}
    \cup
    {[status |-> "ok", casting |-> NPY_SAFE_CASTING,
      out |-> [descrs EXCEPT ![k] = [cls |-> descrs[k].cls, byteorder |-> "=",
                                     tag |-> "new"]],
      err |-> NULL, released |-> <<>>] : k \in DOMAIN descrs}
    \cup
    {[status |-> "fail", casting |-> -1, out |-> <<>>, err |-> e, released |-> <<>>] :
        e \in {NULL, "TypeError"}}

\* What a custom get_strided_loop may return: a loop with or without
\* auxiliary data, or a failure.
CustomSelectorResults ==
    {[ret |-> 0, out_loop |-> "h", out_transferdata |-> aux, flags |-> {}] :
        aux \in {NULL, "auxdata"}}
    \cup {[ret |-> -1, out_loop |-> NULL, out_transferdata |-> NULL, flags |-> {}]}

CallEnvs(self, arr_tuple) ==
    LET descrs == [i \in DOMAIN arr_tuple.items |->
                      IF arr_tuple.items[i] = NotAnArray THEN NullDescr
                      ELSE arr_tuple.items[i].descr]
    IN  [failing : {{}, {1}},
         descrtype : {"crash"},
         parametric : {"crash"},
         custom : IF self.method.resolve_descriptors = "default_resolve_descriptors"
                  THEN {NoObject} ELSE CallCustomResults(descrs),
         selector : IF self.method.get_strided_loop = "npy_default_get_strided_loop"
                    THEN {NoObject} ELSE CustomSelectorResults,
         loop_res : InnerResults]

CallInit ==
    /\ MaskedIdle
    /\ spec \in CallSpecs
    /\ private = TRUE
    /\ bound = NoObject
    /\ ctor = [status |-> "start"]
    /\ last = [op |-> "none"]

\* bound._simple_strided_call(arr_tuple)
SimpleStridedCall ==
    /\ ctor.status = "ok"
    /\ last.op = "none"
    /\ \E arr_tuple \in ArrayTuples(bound.dtypes) :
       \E env \in CallEnvs(bound, arr_tuple) :
         LET o == boundarraymethod__simple_strided_call(bound, arr_tuple, env)
         IN  last' = [op |-> "call", arr_tuple |-> arr_tuple, outcome |-> o]
    /\ UNCHANGED <<spec, private, bound, ctor>>
    /\ UNCHANGED maskedVars

CallNext == Construct \/ SimpleStridedCall

SpecCall == CallInit /\ [][CallNext]_vars

\* ---- properties of _simple_strided_call ----

Called == last.op = "call"

NotCalledMark == [status |-> "not called"]

\* The resolver was called and returned a level with its instances.
CallResolved ==
    /\ Called
    /\ last.outcome.r # NotCalledMark
    /\ last.outcome.r.casting >= 0

\* Some resolved instance is not the instance of the array in its slot.
SomeInstanceChanged ==
    \E i \in DOMAIN last.arr_tuple.items :
        last.outcome.r.out[i] # last.arr_tuple.items[i].descr

\* C3: when the resolver returns, for any slot, an instance that is not the
\* instance of the array passed in that slot, _simple_strided_call fails with
\* an error set and calls neither the loop selector nor the inner loop; the
\* inner loop runs only when every resolved instance is the given one.
C3_AdaptedInstancesRejected ==
    /\ (CallResolved /\ SomeInstanceChanged) =>
          /\ last.outcome.ret = "NULL"
          /\ last.outcome.exc = "TypeError"
          /\ last.outcome.sel = NotCalledMark
          /\ last.outcome.loop_calls = <<>>
    /\ (Called /\ last.outcome.loop_calls # <<>>) =>
          /\ CallResolved
          /\ ~SomeInstanceChanged

\* A call on arrays one of which is byte-swapped, so that the resolver
\* returned a new instance for it, was rejected.
C3_Witness ==
    /\ CallResolved
    /\ SomeInstanceChanged
    /\ last.outcome.ret = "NULL"
    /\ last.outcome.why = "dtypes were adapted"

\* A call whose resolver returned the given instances ran the inner loop.
C3_WitnessRan ==
    /\ CallResolved
    /\ ~SomeInstanceChanged
    /\ last.outcome.loop_calls # <<>>

\* The tuple given has one array per slot.
ArraysGiven ==
    /\ Called
    /\ last.arr_tuple.is_tuple
    /\ Len(last.arr_tuple.items) = bound.method.nin + bound.method.nout
    /\ \A i \in DOMAIN last.arr_tuple.items : last.arr_tuple.items[i] # NotAnArray

\* C4: for every arity and every tuple of arrays, _simple_strided_call
\* requires exactly the output arrays (slots after the nin inputs) to be
\* writeable: it fails before calling the inner loop when an output array is
\* read-only, and never rejects a call because an input array is read-only.
C4_ExactlyOutputsWriteable ==
    ArraysGiven =>
        /\ (\E i \in DOMAIN last.arr_tuple.items :
               /\ i > bound.method.nin
               /\ ~last.arr_tuple.items[i].writeable)
           => (last.outcome.ret = "NULL" /\ last.outcome.loop_calls = <<>>)
        /\ last.outcome.why = "read-only" => last.outcome.err.slot > bound.method.nin

\* The loop selector was called and gave a loop.
LoopSelected ==
    /\ Called
    /\ last.outcome.sel # NotCalledMark
    /\ last.outcome.sel.ret >= 0

\* C10: the selected inner loop is called exactly once over the full length;
\* whenever it returns a non-zero result the call fails (does not return
\* None); and auxiliary data that is not NULL is freed exactly once.
C10_LoopOnceFailureReported ==
    LoopSelected =>
        /\ Len(last.outcome.loop_calls) = 1
        /\ last.outcome.loop_calls[1].length = last.arr_tuple.items[1].size
        /\ last.outcome.loop_calls[1].res # 0 => last.outcome.ret = "NULL"
        /\ last.outcome.sel.out_transferdata # NULL =>
              last.outcome.freed = <<last.outcome.sel.out_transferdata>>

----
\* ---------------- validation of specifications ----------------

ValidateArities ==
    {<<-1, 1>>, <<1, -1>>, <<0, 0>>, <<0, 1>>, <<1, 0>>, <<1, 1>>, <<2, 1>>, <<1, 2>>,
     <<NPY_MAXARGS - 1, 1>>, <<NPY_MAXARGS, 1>>}

\* The DType arrays tried for an arity: every array over the classes, NULL
\* and an object that is no DType for up to three arguments, and an array of
\* class A beyond.
ValidateDTypes(a) ==
    LET n == a[1] + a[2]
    IN  IF a[1] < 0 \/ a[2] < 0 THEN {<<"A">>}
        ELSE IF n > 3 THEN {[i \in 1..n |-> "A"]}
        ELSE [1..n -> {"A", "P", "Abs", NULL, NotADType}]

ValidateCastings ==
    {-1, -2, -1 - NPY_CAST_IS_VIEW, NPY_NO_CASTING, NPY_UNSAFE_CASTING,
     NPY_UNSAFE_CASTING + 1, NPY_EQUIV_CASTING + NPY_CAST_IS_VIEW,
     NPY_UNSAFE_CASTING + 1 + NPY_CAST_IS_VIEW, NPY_SAFE_CASTING + 2 * NPY_CAST_IS_VIEW}

ValidateSlotTables ==
    {<<>>,
     <<[slot |-> "strided_loop", pfunc |-> "f"]>>,
     <<[slot |-> "strided_loop", pfunc |-> "f"],
       [slot |-> "resolve_descriptors", pfunc |-> "custom_resolve_descriptors"]>>,
     <<[slot |-> "get_loop", pfunc |-> "custom_get_strided_loop"],
       [slot |-> "strided_loop", pfunc |-> "f"]>>,
     <<[slot |-> "strided_loop", pfunc |-> "f"], [slot |-> "unknown", pfunc |-> "f"]>>,
     <<[slot |-> "unknown", pfunc |-> "f"],
       [slot |-> "resolve_descriptors", pfunc |-> "custom_resolve_descriptors"],
       [slot |-> "strided_loop", pfunc |-> "f"]>>}

ValidateSpecs ==
    UNION {{[nin |-> a[1], nout |-> a[2], casting |-> c, flags |-> {},
             dtypes |-> dt, slots |-> sl] :
               dt \in ValidateDTypes(a), c \in ValidateCastings,
               sl \in ValidateSlotTables} : a \in ValidateArities}

ValidateInit ==
    /\ MaskedIdle
    /\ spec \in ValidateSpecs
    /\ private \in BOOLEAN
    /\ bound = NoObject
    /\ ctor = [status |-> "start"]
    /\ last = [op |-> "none"]

ValidateNext == Construct

SpecValidate == ValidateInit /\ [][ValidateNext]_vars

\* The defects of a specification that construction is to reject.
BadArity(sp) == sp.nin < 0 \/ sp.nout < 0 \/ sp.nin + sp.nout > NPY_MAXARGS
BadCasting(sp) ==
    /\ sp.casting # -1
    /\ sp.casting \notin CastingLevels
    /\ sp.casting \notin {l + NPY_CAST_IS_VIEW : l \in CastingLevels}
BadInputClass(sp) ==
    \E i \in DOMAIN sp.dtypes :
        i <= sp.nin /\ (sp.dtypes[i] = NULL \/ abstract(sp.dtypes[i]))
BadSlot(sp, priv) ==
    \E k \in DOMAIN sp.slots :
        sp.slots[k].slot \notin SlotIds \/ (sp.slots[k].slot = "get_loop" /\ ~priv)
BuiltinResolverRemains(sp) == Supplied(sp.slots, "resolve_descriptors") = NULL
BadForBuiltinResolver(sp) ==
    /\ BuiltinResolverRemains(sp)
    /\ \/ sp.casting = -1
       \/ \E i \in DOMAIN sp.dtypes : i > sp.nin /\ parametric(sp.dtypes[i])
Defective(sp, priv) ==
    \/ BadArity(sp)
    \/ BadCasting(sp)
    \/ BadInputClass(sp)
    \/ BadSlot(sp, priv)
    \/ BadForBuiltinResolver(sp)

\* The construction read a null class: the outcome of that read is not
\* defined, and it may have faulted instead of returning.
NullClassRead == ctor.status = "crash"

C11_WitnessAccepted ==
    /\ bound # NoObject
    /\ spec.casting = NPY_EQUIV_CASTING + NPY_CAST_IS_VIEW
    /\ spec.nin = 2

----
\* ---------------- the default resolver and absent instances ----------------

\* The output slots of the last _resolve_descriptors whose tuple item was
\* None while the bound class of the slot is not null.
AbsentWithClass ==
    {i \in DOMAIN last.descr_tuple.items :
        /\ i > bound.method.nin
        /\ last.descr_tuple.items[i] = PyNone
        /\ bound.dtypes[i] # NULL}

\* The default resolver was called by the last _resolve_descriptors.
DefaultResolverCalled ==
    /\ last.op = "resolve"
    /\ UsesDefaultResolver
    /\ last.outcome.r # NotCalledMark

\* C12: when _resolve_descriptors is called on a method with the default
\* resolver and an output item is None while the bound class of that slot
\* is not null, the resolver does not read the class of the absent instance
\* (so it cannot fault there), and when it succeeds the slot holds the
\* default instance of the bound class.
C12_AbsentOutputGetsDefault ==
    (DefaultResolverCalled /\ AbsentWithClass # {}) =>
        /\ last.outcome.r.status # "crash"
        /\ last.outcome.r.status = "ok" =>
              \A i \in AbsentWithClass :
                  last.outcome.r.out[i] =
                      [cls |-> bound.dtypes[i], byteorder |-> "=", tag |-> "default"]

\* C13: when the default resolver fails (an instance cannot be made, or
\* there is no common class) it returns -1 and releases the output entries
\* it has stored, and it reads and releases no entry of output_descrs that
\* it has not written during the call.
C13_FailureReleasesOnlyStored ==
    (DefaultResolverCalled /\ last.outcome.r.status = "fail") =>
        /\ last.outcome.r.casting = -1
        /\ last.outcome.r.released = last.outcome.r.out
        /\ \A i \in DOMAIN last.outcome.r.released :
              last.outcome.r.released[i] # Uninit

----
\* ---------------- loops given out by the selectors ----------------

\* PyArrayMethod_GetMaskedStridedLoop(context, aligned, fixed_strides, ...):
\* the working memory is allocated (which may fail), the method's
\* get_strided_loop stores the unmasked loop and its auxiliary data in it,
\* and the masked adapter is given out with that memory as auxiliary data.
PyArrayMethod_GetMaskedStridedLoop(context, aligned, strd, malloc_fails, env) ==
    LET nargs_ == context.method.nin + context.method.nout
        Failed(e) == [ret |-> -1, err |-> e, out_loop |-> NULL,
                      out_transferdata |-> NoObject, flags |-> {}]
    IN  IF malloc_fails THEN Failed("MemoryError")
        ELSE LET sel == get_strided_loop(context, aligned, strd, env)
             IN  IF sel.ret < 0 THEN Failed("selector error")
                 ELSE [ret |-> 0, err |-> NULL,
                       out_loop |-> "generic_masked_strided_loop",
                       out_transferdata |->
                           [unmasked_stridedloop |-> sel.out_loop,
                            unmasked_auxdata |-> sel.out_transferdata,
                            nargs |-> nargs_],
                       flags |-> sel.flags]

\* A caller asks for the masked loop of the method.
GetMaskedStridedLoop ==
    /\ ctor.status = "ok"
    /\ last.op = "none"
    /\ \E aligned \in BOOLEAN, malloc_fails \in BOOLEAN :
       \E descrs \in [1..Len(bound.dtypes) -> UNION {CanonicalOf(d) : d \in DTypeClasses}] :
       \E strd \in [1..Len(bound.dtypes) -> SelectStrides] :
         /\ \A i \in 1..Len(bound.dtypes) : descrs[i].cls = bound.dtypes[i]
         /\ LET context == [method |-> bound.method, descriptors |-> descrs]
                r == PyArrayMethod_GetMaskedStridedLoop(context, aligned, strd,
                                                        malloc_fails, NoObject)
            IN  last' = [op |-> "get_masked_strided_loop", aligned |-> aligned,
                         strides |-> strd, descriptors |-> descrs,
                         ret |-> r.ret, out_loop |-> r.out_loop,
                         out_transferdata |-> r.out_transferdata,
                         flags |-> r.flags]
    /\ UNCHANGED <<spec, private, bound, ctor>>
    /\ UNCHANGED maskedVars

LoopsNext == Construct \/ GetStridedLoop \/ GetMaskedStridedLoop

SpecLoops == SelectInit /\ [][LoopsNext]_vars

\* C14: on a method accepted with the built-in selector, for every aligned
\* value and every stride tuple, a success of npy_default_get_strided_loop,
\* called directly or through PyArrayMethod_GetMaskedStridedLoop, comes with
\* a loop that is not null (returned, or captured for the masked adapter).
C14_SuccessGivesLoop ==
    /\ (last.op = "get_strided_loop" /\ last.ret = 0) => last.out_loop # NULL
    /\ (last.op = "get_masked_strided_loop" /\ last.ret = 0) =>
          last.out_transferdata.unmasked_stridedloop # NULL

----
\* ---------------- termination of the masked adapter ----------------

\* The adapter under a scheduler that lets it run: the calls of npy_memchr
\* and of the inner loop return, so a step that is possible is taken.
SpecMaskedFair == SpecMasked /\ WF_vars(MaskedNext)

\* The number of elements consumed when invocation k of the inner loop has
\* been processed: the end of iteration k of the do-while.
ConsumedAfter(k) == IF k = 0 THEN 0 ELSE calls[k].off + calls[k].len

\* Iteration k of the do-while began with N > 0: the first one if the
\* length is not 0, and every later one.
BeganWithElements(k) == k > 1 \/ Len(mask) > 0

\* C15: the do-while of the masked adapter terminates for every length and
\* every mask: each iteration begun with N > 0 consumes at least one
\* element, N never becomes negative, and a return of 0 finds exactly the
\* given number of elements consumed.
C15_MaskedTerminates ==
    /\ [](/\ N >= 0
          /\ \A k \in 1..Len(calls) :
                BeganWithElements(k) => ConsumedAfter(k) > ConsumedAfter(k - 1)
          /\ (mpc = "done" /\ mret = 0) =>
                (N = 0 /\ ConsumedAfter(Len(calls)) = Len(mask)))
    /\ <>(mpc = "done")

\* A run of two iterations over five elements has returned 0.
C15_Witness ==
    /\ mpc = "done"
    /\ mret = 0
    /\ mask = <<FALSE, TRUE, FALSE, TRUE, TRUE>>
    /\ Len(calls) = 2
    /\ N = 0

----
\* ---------------- the declared level seen through _resolve_descriptors ----------------

\* The last _resolve_descriptors was given a canonical instance of the bound
\* class for every slot of a method with the default resolver whose classes
\* are all concrete and non-parametric.
CanonicalCallOnPlainMethod ==
    /\ last.op = "resolve"
    /\ UsesDefaultResolver
    /\ \A i \in 1..Len(bound.dtypes) :
          /\ bound.dtypes[i] \in DTypeClasses
          /\ ~abstract(bound.dtypes[i])
          /\ ~parametric(bound.dtypes[i])
    /\ last.descr_tuple.is_tuple
    /\ Len(last.descr_tuple.items) = Len(bound.dtypes)
    /\ \A i \in 1..Len(bound.dtypes) :
          IsCanonicalOf(last.descr_tuple.items[i], bound.dtypes[i])

\* C16: on every accepted method with the default resolver and
\* non-parametric classes, whatever its declared level (the view flag
\* included), _resolve_descriptors called with canonical instances of the
\* bound classes returns the declared level and raises no RuntimeError.
C16_DeclaredLevelReturned ==
    CanonicalCallOnPlainMethod =>
        /\ last.outcome.kind = "result"
        /\ last.outcome.casting = bound.method.casting

====
